---- MODULE Spec2Model ----
(***************************************************************************)
(* MCP2515 CAN controller driver (src/mcp2515.c) on an AVR SPI master.     *)
(*                                                                         *)
(* The driver's functions are kept as statement lists, one statement per   *)
(* source line, and executed one statement at a time on a call stack.      *)
(* The AVR I/O registers, the SPI shift hardware and the MCP2515 at the    *)
(* other end of the bus are the environment the statements act on.         *)
(***************************************************************************)
EXTENDS Naturals, Sequences, FiniteSets

VARIABLES
    io,       \* AVR I/O registers, by name
    spi,      \* SPI hardware: transfer in flight, byte shifted out, SPIF clear sequence
    stack,    \* call stack of the driver, bottom frame first
    regs,     \* MCP2515 register file
    chipRx,   \* bytes the MCP2515 has clocked in since chip-select was asserted
    hist,     \* the public calls that have returned, oldest first: arguments, value
              \* returned, addressed chip register at entry, port pins as read by
              \* return !(PIND & ...)
    regs0,    \* MCP2515 register file when the running public call was entered
    log,      \* bus events since the running public call was entered
    ncalls    \* public calls made so far

vars == <<io, spi, stack, regs, chipRx, hist, regs0, log, ncalls>>

(***************************************************************************)
(* Bounds of the model.                                                    *)
(***************************************************************************)
MaxCalls == 3

(***************************************************************************)
(* 8-bit arithmetic.                                                       *)
(***************************************************************************)
Bit(x, i) == (x \div (2^i)) % 2

And8(x, y) ==
    LET b(i) == Bit(x, i) * Bit(y, i)
    IN  b(0) + 2*b(1) + 4*b(2) + 8*b(3) + 16*b(4) + 32*b(5) + 64*b(6) + 128*b(7)

Or8(x, y) == x + y - And8(x, y)

Not8(x) == 255 - x

Shl8(x, n) == (x * (2^n)) % 256

(***************************************************************************)
(* Constants of the program.                                               *)
(***************************************************************************)
CHIP_SELECT == 2
INTERRUPT_LOW == 2
SERIAL_CLK == 5
MOSI == 4
MISO == 3
FILLER == 255

SPI_RESET == 192
SPI_READ == 3
SPI_WRITE == 2
SPI_READ_STATUS == 160
SPI_RX_STATUS == 176
SPI_BIT_MODIFY == 5

\* <avr/io.h>: bit numbers of SPCR and SPSR (ATmega328P).
SPE == 6
DORD == 5
MSTR == 4
SPR1 == 1
SPR0 == 0
SPIF == 7

\* MCP2515 register map: CNF3 is register 0x28 and PHSEG21 is bit 1 of it.
\* The registers that follow CNF3 are CNF2, CNF1, CANINTE and CANINTF.
CNF3 == 40
PHSEG21 == 1

(***************************************************************************)
(* Statements.  op is what the line does, reg the I/O register or the      *)
(* function it names, val the operand, store whether a call's result is    *)
(* kept in the local variable `data'.                                      *)
(***************************************************************************)
Stmt(op, reg, val, store) == [op |-> op, reg |-> reg, val |-> val, store |-> store]

OrEq(reg, val)  == Stmt("or", reg, val, FALSE)          \* reg |= val
AndEq(reg, val) == Stmt("and", reg, val, FALSE)         \* reg &= val
Assign(reg, val) == Stmt("set", reg, val, FALSE)        \* reg = val
Call(fn, val)   == Stmt("call", fn, val, FALSE)         \* fn(val);
CallStore(fn, val) == Stmt("call", fn, val, TRUE)       \* uint8_t data = fn(val);
WaitSet(reg, val) == Stmt("wait", reg, val, FALSE)      \* while (!(reg & val)) {;}
Delay(us)       == Stmt("delay", "", us, FALSE)         \* _delay_us(us);
Return          == Stmt("ret", "void", 0, FALSE)        \* return;
ReturnLocal     == Stmt("ret", "local", 0, FALSE)       \* return data;
ReturnReg(reg)  == Stmt("ret", reg, 0, FALSE)           \* return reg;
ReturnNot(reg, val) == Stmt("retnot", reg, val, FALSE)  \* return !(reg & val);

(***************************************************************************)
(* The functions of src/mcp2515.c.                                         *)
(***************************************************************************)
\* Variant: tests the wrong pin of port D.
messageReceivedWrongPin ==
    << ReturnNot("PIND", Shl8(1, MISO)) >>

\* Variant: switches the pull-up of the interrupt pin on before it reads the pin.
messageReceivedPullUp ==
    << OrEq("PORTD", Shl8(1, INTERRUPT_LOW)),
       ReturnNot("PIND", Shl8(1, INTERRUPT_LOW)) >>

messageReceived ==
    << ReturnNot("PIND", Shl8(1, INTERRUPT_LOW)) >>

\* Variant: polls WCOL (bit 6 of SPSR) instead of SPIF.
sendDataPollsWrongFlag(data) ==
    << Assign("SPDR", data),
       WaitSet("SPSR", Shl8(1, SPIF - 1)),
       ReturnReg("SPDR") >>

\* Variant: returns without reading SPDR.
sendDataNoRead(data) ==
    << Assign("SPDR", data),
       WaitSet("SPSR", Shl8(1, SPIF)),
       Return >>

sendData(data) ==
    << Assign("SPDR", data),
       WaitSet("SPSR", Shl8(1, SPIF)),
       ReturnReg("SPDR") >>

writeToRegister(address, data) ==
    << AndEq("PORTB", Not8(Shl8(1, CHIP_SELECT))),
       Call("sendData", SPI_WRITE),
       Call("sendData", address),
       Call("sendData", data),
       OrEq("PORTB", Shl8(1, CHIP_SELECT)),
       Return >>

\* Variant: keeps the byte that came in while the address went out.
readRegisterKeepsAddressByte(address) ==
    << AndEq("PORTB", Not8(Shl8(1, CHIP_SELECT))),
       Call("sendData", SPI_READ),
       CallStore("sendData", address),
       Call("sendData", FILLER),
       OrEq("PORTB", Shl8(1, CHIP_SELECT)),
       ReturnLocal >>

readRegister(address) ==
    << AndEq("PORTB", Not8(Shl8(1, CHIP_SELECT))),
       Call("sendData", SPI_READ),
       Call("sendData", address),
       CallStore("sendData", FILLER),
       OrEq("PORTB", Shl8(1, CHIP_SELECT)),
       ReturnLocal >>

bitModify(address, mask, data) ==
    << AndEq("PORTB", Not8(Shl8(1, CHIP_SELECT))),
       Call("sendData", SPI_BIT_MODIFY),
       Call("sendData", address),
       Call("sendData", mask),
       Call("sendData", data),
       OrEq("PORTB", Shl8(1, CHIP_SELECT)),
       Return >>

readStatus(readType) ==
    << AndEq("PORTB", Not8(Shl8(1, CHIP_SELECT))),
       Call("sendData", readType),
       CallStore("sendData", FILLER),
       OrEq("PORTB", Shl8(1, CHIP_SELECT)),
       ReturnLocal >>

resetController ==
    << AndEq("PORTB", Not8(Shl8(1, CHIP_SELECT))),
       Call("sendData", SPI_RESET),
       OrEq("PORTB", Shl8(1, CHIP_SELECT)),
       Return >>

\* Variant: the reset is sent before the SPI is switched on and without the
\* delay after it.
initControllerEarlyReset ==
    << OrEq("PORTB", Shl8(1, CHIP_SELECT)),
       OrEq("DDRB", Shl8(1, CHIP_SELECT)),
       AndEq("PORTB", Not8(Or8(Or8(Shl8(1, SERIAL_CLK), Shl8(1, MOSI)), Shl8(1, MISO)))),
       OrEq("DDRB", Or8(Shl8(1, SERIAL_CLK), Shl8(1, MOSI))),
       AndEq("DDRB", Not8(Shl8(1, MISO))),
       AndEq("DDRD", Not8(Shl8(1, INTERRUPT_LOW))),
       OrEq("PORTD", Shl8(1, INTERRUPT_LOW)),
       Call("resetController", 0),
       Assign("SPCR", Or8(Or8(Or8(Or8(Shl8(1, SPE), Shl8(0, DORD)), Shl8(1, MSTR)),
                              Shl8(0, SPR1)), Shl8(1, SPR0))),
       Assign("SPSR", 0),
       AndEq("PORTB", Not8(Shl8(1, CHIP_SELECT))),
       Call("sendData", SPI_WRITE),
       Call("sendData", CNF3),
       Call("sendData", Shl8(1, PHSEG21)),
       ReturnReg("SPDR") >>

\* Variant: the first statement assigns the port instead of setting one bit.
initControllerAssignsPort ==
    << Assign("PORTB", Shl8(1, CHIP_SELECT)),
       OrEq("DDRB", Shl8(1, CHIP_SELECT)),
       AndEq("PORTB", Not8(Or8(Or8(Shl8(1, SERIAL_CLK), Shl8(1, MOSI)), Shl8(1, MISO)))),
       OrEq("DDRB", Or8(Shl8(1, SERIAL_CLK), Shl8(1, MOSI))),
       AndEq("DDRB", Not8(Shl8(1, MISO))),
       AndEq("DDRD", Not8(Shl8(1, INTERRUPT_LOW))),
       OrEq("PORTD", Shl8(1, INTERRUPT_LOW)),
       Assign("SPCR", Or8(Or8(Or8(Or8(Shl8(1, SPE), Shl8(0, DORD)), Shl8(1, MSTR)),
                              Shl8(0, SPR1)), Shl8(1, SPR0))),
       Assign("SPSR", 0),
       Call("resetController", 0),
       Delay(10),
       AndEq("PORTB", Not8(Shl8(1, CHIP_SELECT))),
       Call("sendData", SPI_WRITE),
       Call("sendData", CNF3),
       Call("sendData", Shl8(1, PHSEG21)),
       ReturnReg("SPDR") >>

\* Variant: returns 0 for success instead of the data register.
initControllerReturnsStatus ==
    << OrEq("PORTB", Shl8(1, CHIP_SELECT)),
       OrEq("DDRB", Shl8(1, CHIP_SELECT)),
       AndEq("PORTB", Not8(Or8(Or8(Shl8(1, SERIAL_CLK), Shl8(1, MOSI)), Shl8(1, MISO)))),
       OrEq("DDRB", Or8(Shl8(1, SERIAL_CLK), Shl8(1, MOSI))),
       AndEq("DDRB", Not8(Shl8(1, MISO))),
       AndEq("DDRD", Not8(Shl8(1, INTERRUPT_LOW))),
       OrEq("PORTD", Shl8(1, INTERRUPT_LOW)),
       Assign("SPCR", Or8(Or8(Or8(Or8(Shl8(1, SPE), Shl8(0, DORD)), Shl8(1, MSTR)),
                              Shl8(0, SPR1)), Shl8(1, SPR0))),
       Assign("SPSR", 0),
       Call("resetController", 0),
       Delay(10),
       AndEq("PORTB", Not8(Shl8(1, CHIP_SELECT))),
       Call("sendData", SPI_WRITE),
       Call("sendData", CNF3),
       Call("sendData", Shl8(1, PHSEG21)),
       Return >>

initController ==
    << OrEq("PORTB", Shl8(1, CHIP_SELECT)),
       OrEq("DDRB", Shl8(1, CHIP_SELECT)),
       AndEq("PORTB", Not8(Or8(Or8(Shl8(1, SERIAL_CLK), Shl8(1, MOSI)), Shl8(1, MISO)))),
       OrEq("DDRB", Or8(Shl8(1, SERIAL_CLK), Shl8(1, MOSI))),
       AndEq("DDRB", Not8(Shl8(1, MISO))),
       AndEq("DDRD", Not8(Shl8(1, INTERRUPT_LOW))),
       OrEq("PORTD", Shl8(1, INTERRUPT_LOW)),
       Assign("SPCR", Or8(Or8(Or8(Or8(Shl8(1, SPE), Shl8(0, DORD)), Shl8(1, MSTR)),
                              Shl8(0, SPR1)), Shl8(1, SPR0))),
       Assign("SPSR", 0),
       Call("resetController", 0),
       Delay(10),
       AndEq("PORTB", Not8(Shl8(1, CHIP_SELECT))),
       Call("sendData", SPI_WRITE),
       Call("sendData", CNF3),
       Call("sendData", Shl8(1, PHSEG21)),
       ReturnReg("SPDR") >>

(***************************************************************************)
(* Call stack.  A frame holds the function, its arguments, the index of    *)
(* the statement it is at, its local variable `data' and the value that    *)
(* the last function it called returned to it.                             *)
(***************************************************************************)
Frame(fn, address, mask, data) ==
    [fn |-> fn, address |-> address, mask |-> mask, data |-> data, pc |-> 1,
     local |-> 0, got |-> 0]

Body(f) ==
    CASE f.fn = "messageReceived" -> messageReceived
      [] f.fn = "sendData"        -> sendData(f.data)
      [] f.fn = "writeToRegister" -> writeToRegister(f.address, f.data)
      [] f.fn = "readRegister"    -> readRegister(f.address)
      [] f.fn = "bitModify"       -> bitModify(f.address, f.mask, f.data)
      [] f.fn = "readStatus"      -> readStatus(f.data)
      [] f.fn = "resetController" -> resetController
      [] f.fn = "initController"  -> initController

Running == stack # <<>>
Top == stack[Len(stack)]
Cur == Body(Top)[Top.pc]
At(op) == Running /\ Cur.op = op
Advance(f) == [f EXCEPT !.pc = f.pc + 1]
SetTop(f) == [stack EXCEPT ![Len(stack)] = f]

(***************************************************************************)
(* Inputs of the public calls.                                             *)
(***************************************************************************)
Addresses == {CNF3, CNF3 + 3}     \* CNF3 and CANINTE
Values == {1, 255}
Masks == {15}
ModifyValues == {165}
StatusTypes == {SPI_READ_STATUS, SPI_RX_STATUS}

PublicCalls ==
    {Frame("initController", 0, 0, 0), Frame("resetController", 0, 0, 0),
     Frame("messageReceived", 0, 0, 0)}
    \cup {Frame("writeToRegister", a, 0, d) : a \in Addresses, d \in Values}
    \cup {Frame("readRegister", a, 0, 0) : a \in Addresses}
    \cup {Frame("bitModify", a, m, d) : a \in Addresses, m \in Masks, d \in ModifyValues}
    \cup {Frame("readStatus", 0, 0, t) : t \in StatusTypes}

(***************************************************************************)
(* The chip-select pin as the MCP2515 sees it: selected while the pin is   *)
(* driven (DDRB bit set) low (PORTB bit clear).                            *)
(***************************************************************************)
Selected(r) == Bit(r["DDRB"], CHIP_SELECT) = 1 /\ Bit(r["PORTB"], CHIP_SELECT) = 0

CsEvent(level) == [e |-> "cs", v |-> level]
TxEvent(byte) == [e |-> "tx", v |-> byte]
DelayEvent == [e |-> "delay", v |-> 0]

CsEdge(old, new) ==
    IF Selected(old) = Selected(new) THEN <<>>
    ELSE IF Selected(new) THEN <<CsEvent(1)>> ELSE <<CsEvent(0)>>

(***************************************************************************)
(* The MCP2515.  The first byte of a chip-select frame is the instruction; *)
(* READ, WRITE and BIT MODIFY take the register address next.  WRITE       *)
(* stores every further byte at the next address, READ answers with the    *)
(* register at the next address, BIT MODIFY takes a mask and a value,      *)
(* RESET restores the register defaults.  While the chip has nothing to    *)
(* answer its output floats and the master reads whatever the line gives.  *)
(***************************************************************************)
\* The register file is kept as the registers that differ from the reset
\* default, 0, by address (0x00..0x7F).
ResetRegs == [a \in {} |-> 0]
FloatBytes == {0, 255}
StatusBytes == {0, 1}

RegValue(r, a) == IF a \in DOMAIN r THEN r[a] ELSE 0

RegStore(r, a, v) ==
    [x \in (IF v = 0 THEN DOMAIN r \ {a} ELSE DOMAIN r \cup {a}) |->
        IF x = a THEN v ELSE r[x]]

ChipPointer(rx) == (rx[2] + Len(rx) - 2) % 128

ChipBitModify(old, mask, data) == Or8(And8(old, Not8(mask)), And8(data, mask))

ChipStore(rx, byte) ==
    IF rx = <<>>
    THEN IF byte = SPI_RESET THEN ResetRegs ELSE regs
    ELSE IF rx[1] = SPI_WRITE /\ Len(rx) >= 2
    THEN RegStore(regs, ChipPointer(rx), byte)
    ELSE IF rx[1] = SPI_BIT_MODIFY /\ Len(rx) = 3
    THEN RegStore(regs, rx[2] % 128,
                  ChipBitModify(RegValue(regs, rx[2] % 128), rx[3], byte))
    ELSE regs

ChipAnswer(rx) ==
    IF rx # <<>> /\ rx[1] = SPI_READ /\ Len(rx) >= 2
    THEN {RegValue(regs, ChipPointer(rx))}
    ELSE IF rx # <<>> /\ rx[1] \in {SPI_READ_STATUS, SPI_RX_STATUS}
    THEN StatusBytes
    ELSE FloatBytes

(***************************************************************************)
(* Initial state: the AVR after power-up or with every port pin already    *)
(* configured by the application, SPI off, the MCP2515 after power-on      *)
(* reset, the interrupt line at either level.                              *)
(***************************************************************************)
PortBytes == {0, 255}
PinLevels == {4, 251}

Init ==
    /\ \E p \in PortBytes, l \in PinLevels :
         io = [r \in {"PORTB", "DDRB", "PORTD", "DDRD", "PIND", "SPCR", "SPSR", "SPDR"} |->
                 IF r \in {"PORTB", "DDRB", "PORTD", "DDRD"} THEN p
                 ELSE IF r = "PIND" THEN l ELSE 0]
    /\ spi = [busy |-> FALSE, out |-> 0, armed |-> FALSE]
    /\ stack = <<>>
    /\ regs = ResetRegs
    /\ chipRx = <<>>
    /\ hist = <<>>
    /\ regs0 = ResetRegs
    /\ log = <<>>
    /\ ncalls = 0

(***************************************************************************)
(* The caller makes a public call.                                         *)
(***************************************************************************)
Invoke ==
    /\ ~Running
    /\ ncalls < MaxCalls
    /\ \E f \in PublicCalls : stack' = <<f>>
    /\ regs0' = regs
    /\ log' = <<>>
    /\ ncalls' = ncalls + 1
    /\ UNCHANGED <<io, spi, regs, chipRx, hist>>

(***************************************************************************)
(* reg |= val, reg &= val, reg = val on an I/O register.  SPDR written     *)
(* with the SPI enabled as master starts a transfer; of SPSR only SPI2X    *)
(* (bit 0) can be written; an access to SPDR after SPSR was read with SPIF *)
(* set clears SPIF.  A port write that releases chip-select ends the       *)
(* chip's frame.                                                           *)
(***************************************************************************)
SpiMaster(r) == Bit(r["SPCR"], SPE) = 1 /\ Bit(r["SPCR"], MSTR) = 1

ClearSpif(r) == [r EXCEPT !["SPSR"] = And8(r["SPSR"], Not8(Shl8(1, SPIF)))]

Operand(s) ==
    CASE s.op = "or"  -> Or8(io[s.reg], s.val)
      [] s.op = "and" -> And8(io[s.reg], s.val)
      [] s.op = "set" -> s.val

StepRegister ==
    /\ Running
    /\ Cur.op \in {"or", "and", "set"}
    /\ LET s == Cur
           v == Operand(s)
       IN  /\ stack' = SetTop(Advance(Top))
           /\ IF s.reg = "SPDR"
              THEN /\ io' = IF spi.armed THEN ClearSpif(io) ELSE io
                   /\ spi' = IF SpiMaster(io) /\ ~spi.busy
                             THEN [busy |-> TRUE, out |-> v, armed |-> FALSE]
                             ELSE [spi EXCEPT !.armed = FALSE]
                   /\ UNCHANGED <<chipRx, log>>
              ELSE IF s.reg = "SPSR"
              THEN /\ io' = [io EXCEPT !["SPSR"] = Or8(And8(io["SPSR"], 254), And8(v, 1))]
                   /\ UNCHANGED <<spi, chipRx, log>>
              ELSE /\ io' = [io EXCEPT ![s.reg] = v]
                   /\ chipRx' = IF Selected(io') THEN chipRx ELSE <<>>
                   /\ log' = log \o CsEdge(io, io')
                   /\ UNCHANGED spi
    /\ UNCHANGED <<regs, hist, regs0, ncalls>>

(***************************************************************************)
(* fn(val): the callee starts at its first statement.                      *)
(***************************************************************************)
StepCall ==
    /\ At("call")
    /\ stack' = Append(stack, Frame(Cur.reg, 0, 0, Cur.val))
    /\ UNCHANGED <<io, spi, regs, chipRx, hist, regs0, log, ncalls>>

(***************************************************************************)
(* while (!(reg & val)) {;} leaves the loop once the bit reads set.  A     *)
(* read that finds the bit clear changes nothing and the loop goes on.     *)
(***************************************************************************)
\* Variant: the loop gives up and goes on without the bit being set.
StepWaitGivesUp ==
    /\ At("wait")
    /\ stack' = SetTop(Advance(Top))
    /\ spi' = IF Cur.reg = "SPSR" /\ Bit(io["SPSR"], SPIF) = 1
              THEN [spi EXCEPT !.armed = TRUE] ELSE spi
    /\ UNCHANGED <<io, regs, chipRx, hist, regs0, log, ncalls>>

StepWait ==
    /\ At("wait")
    /\ And8(io[Cur.reg], Cur.val) # 0
    /\ stack' = SetTop(Advance(Top))
    /\ spi' = IF Cur.reg = "SPSR" /\ Bit(io["SPSR"], SPIF) = 1
              THEN [spi EXCEPT !.armed = TRUE] ELSE spi
    /\ UNCHANGED <<io, regs, chipRx, hist, regs0, log, ncalls>>

StepDelay ==
    /\ At("delay")
    /\ stack' = SetTop(Advance(Top))
    /\ log' = Append(log, DelayEvent)
    /\ UNCHANGED <<io, spi, regs, chipRx, hist, regs0, ncalls>>

(***************************************************************************)
(* return: the value goes to the caller, which keeps it in `data' when its *)
(* statement says so; the return of a public call hands it to the caller   *)
(* of the driver.                                                          *)
(***************************************************************************)
ReturnValue(s, f) ==
    CASE s.op = "retnot"  -> IF And8(io[s.reg], s.val) = 0 THEN 1 ELSE 0
      [] s.reg = "void"   -> 0
      [] s.reg = "local"  -> f.local
      [] OTHER            -> io[s.reg]

StepReturn ==
    /\ Running
    /\ Cur.op \in {"ret", "retnot"}
    /\ LET s == Cur
           f == Top
           v == ReturnValue(s, f)
           rest == SubSeq(stack, 1, Len(stack) - 1)
       IN  /\ IF s.reg = "SPDR"
              THEN /\ io' = IF spi.armed THEN ClearSpif(io) ELSE io
                   /\ spi' = [spi EXCEPT !.armed = FALSE]
              ELSE UNCHANGED <<io, spi>>
           /\ IF rest = <<>>
              THEN /\ stack' = <<>>
                   /\ hist' = Append(hist, [fn |-> f.fn, address |-> f.address,
                                             mask |-> f.mask, data |-> f.data,
                                             ret |-> v, old |-> RegValue(regs0, f.address),
                                             pind |-> IF s.op = "retnot" THEN io[s.reg]
                                                                         ELSE 0])
              ELSE /\ LET c == rest[Len(rest)]
                          k == Body(c)[c.pc]
                          c2 == [c EXCEPT !.got = v,
                                          !.local = IF k.store THEN v ELSE @]
                      IN  stack' = [rest EXCEPT ![Len(rest)] = Advance(c2)]
                   /\ UNCHANGED hist
    /\ UNCHANGED <<regs, chipRx, regs0, log, ncalls>>

(***************************************************************************)
(* The SPI hardware finishes the 8-bit transfer: the byte went out, the    *)
(* byte on MISO came in, SPIF is set.  A selected MCP2515 takes the byte.  *)
(***************************************************************************)
spiTransfer ==
    /\ spi.busy
    /\ \E in \in (IF Selected(io) THEN ChipAnswer(chipRx) ELSE FloatBytes) :
         io' = [io EXCEPT !["SPDR"] = in, !["SPSR"] = Or8(io["SPSR"], Shl8(1, SPIF))]
    /\ spi' = [spi EXCEPT !.busy = FALSE]
    /\ regs' = IF Selected(io) THEN ChipStore(chipRx, spi.out) ELSE regs
    /\ chipRx' = IF Selected(io) THEN Append(chipRx, spi.out) ELSE chipRx
    /\ log' = Append(log, TxEvent(spi.out))
    /\ UNCHANGED <<stack, hist, regs0, ncalls>>

(***************************************************************************)
(* The MCP2515 drives its INT pin, which the AVR reads as bit 2 of PIND.   *)
(***************************************************************************)
intLine ==
    /\ \E l \in PinLevels : l # io["PIND"] /\ io' = [io EXCEPT !["PIND"] = l]
    /\ UNCHANGED <<spi, stack, regs, chipRx, hist, regs0, log, ncalls>>

Next ==
    \/ Invoke
    \/ StepRegister
    \/ StepCall
    \/ StepWait
    \/ StepDelay
    \/ StepReturn
    \/ spiTransfer
    \/ intLine

Spec == Init /\ [][Next]_vars

(***************************************************************************)
(* Responsive bus: the processor keeps executing the program and the SPI   *)
(* hardware finishes every transfer it has started.                        *)
(***************************************************************************)
Program == StepRegister \/ StepCall \/ StepWait \/ StepDelay \/ StepReturn

FairSpec == Init /\ [][Next]_vars /\ WF_vars(Program) /\ WF_vars(spiTransfer)

(***************************************************************************)
(* Properties.                                                             *)
(***************************************************************************)
Last == hist[Len(hist)]
Returned(fn) == ~Running /\ hist # <<>> /\ Last.fn = fn
BusCalls == {"initController", "resetController", "writeToRegister", "readRegister",
             "bitModify", "readStatus"}

IsPrefix(a, b) == Len(a) <= Len(b) /\ \A i \in 1..Len(a) : a[i] = b[i]

\* Every byte of the log follows a chip-select assertion of the same log with
\* nothing but bytes in between, and every assertion is followed by exactly
\* one release, with nothing but bytes in between.
ScopedLog(l) ==
    /\ \A i \in 1..Len(l) : l[i].e = "tx" =>
         \E j \in 1..(i - 1) : l[j] = CsEvent(1) /\ \A k \in (j + 1)..i : l[k].e = "tx"
    /\ \A i \in 1..Len(l) : l[i] = CsEvent(1) =>
         \E j \in (i + 1)..Len(l) :
            l[j] = CsEvent(0) /\ \A k \in (i + 1)..(j - 1) : l[k].e = "tx"

\* C1: when a bus operation has returned, chip-select is released, and in the
\* operation every byte was exchanged inside a chip-select scope that the
\* operation opened and closed once.
C1_ChipSelectScoped ==
    (~Running /\ hist # <<>> /\ Last.fn \in BusCalls)
        => (~Selected(io) /\ ScopedLog(log))

\* C2: initController(), writeToRegister(CNF3, 0x01), readRegister(CNF3) in
\* a row: the read returns 0x01.
C2_InitWriteRead ==
    \A i \in 1..(Len(hist) - 2) :
        ( /\ hist[i].fn = "initController"
          /\ hist[i + 1].fn = "writeToRegister"
          /\ hist[i + 1].address = CNF3 /\ hist[i + 1].data = 1
          /\ hist[i + 2].fn = "readRegister" /\ hist[i + 2].address = CNF3 )
        => hist[i + 2].ret = 1

\* C3: writeToRegister(R, V) immediately followed by readRegister(R) returns V.
C3_WriteReadRoundTrip ==
    \A i \in 1..(Len(hist) - 1) :
        ( /\ hist[i].fn = "writeToRegister"
          /\ hist[i + 1].fn = "readRegister"
          /\ hist[i + 1].address = hist[i].address )
        => hist[i + 1].ret = hist[i].data

\* C4: bitModify(R, M, V) on a register holding O followed by readRegister(R)
\* returns (O & ~M) | (V & M).
C4_BitModifyThenRead ==
    \A i \in 1..(Len(hist) - 1) :
        ( /\ hist[i].fn = "bitModify"
          /\ hist[i + 1].fn = "readRegister"
          /\ hist[i + 1].address = hist[i].address )
        => hist[i + 1].ret =
              Or8(And8(hist[i].old, Not8(hist[i].mask)), And8(hist[i].data, hist[i].mask))

\* A frame as the instruction set prescribes it: the instruction and its
\* fixed operand bytes.
WellFormedFrame(f) ==
    /\ f # <<>>
    /\ CASE f[1] = SPI_RESET      -> Len(f) = 1
         [] f[1] = SPI_WRITE      -> Len(f) = 3
         [] f[1] = SPI_READ       -> Len(f) = 3 /\ f[3] = FILLER
         [] f[1] = SPI_BIT_MODIFY -> Len(f) = 4
         [] f[1] \in StatusTypes  -> Len(f) = 2 /\ f[2] = FILLER
         [] OTHER                 -> FALSE

\* C5: whenever chip-select is released, the bytes sent since it was asserted
\* are one instruction with exactly its operand bytes.
C5_Framing ==
    [][(Selected(io) /\ ~Selected(io')) => WellFormedFrame(chipRx)]_vars

\* C6: an operation that is about to open a transaction (to drive chip-select
\* low) finds chip-select released: no earlier transaction is still open.
C6_OneTransactionOpen ==
    (Running /\ Cur = AndEq("PORTB", Not8(Shl8(1, CHIP_SELECT)))) => ~Selected(io)

\* C7: when readRegister has returned, every chip register holds what it held
\* when readRegister was called.
C7_ReadIsPure ==
    Returned("readRegister") => regs = regs0

\* C8: messageReceived returns 1 when bit 2 of PIND read 0 at the call and 0
\* when it read 1, whatever the other pins and the earlier calls were.
C8_MessageReceivedIsLineLow ==
    \A i \in 1..Len(hist) :
        hist[i].fn = "messageReceived"
            => hist[i].ret = (IF Bit(hist[i].pind, INTERRUPT_LOW) = 0 THEN 1 ELSE 0)

C8_Witness ==
    \E i, j \in 1..Len(hist) :
        /\ hist[i].fn = "messageReceived" /\ hist[i].ret = 1
        /\ hist[j].fn = "messageReceived" /\ hist[j].ret = 0

\* C9: a step of messageReceived changes no I/O register, starts no transfer,
\* leaves the chip as it is and puts nothing on the bus; two calls of it that
\* find the interrupt line at the same level return the same value.
C9_MessageReceivedChangesNothing ==
    /\ [][(Running /\ stack[1].fn = "messageReceived" /\ stack' # stack)
            => UNCHANGED <<io, spi, regs, chipRx, log>>]_vars
    /\ [](\A i, j \in 1..Len(hist) :
            ( /\ hist[i].fn = "messageReceived" /\ hist[j].fn = "messageReceived"
              /\ Bit(hist[i].pind, INTERRUPT_LOW) = Bit(hist[j].pind, INTERRUPT_LOW) )
            => hist[i].ret = hist[j].ret)

C9_Witness ==
    /\ Returned("messageReceived")
    /\ Len(hist) >= 2
    /\ hist[Len(hist) - 1].fn = "messageReceived"
    /\ hist[Len(hist) - 1].ret = 1
    /\ Last.ret = 1
    /\ log = <<>>

\* The bus events of a whole initController.
InitLog ==
    << CsEvent(1), TxEvent(SPI_RESET), CsEvent(0), DelayEvent,
       CsEvent(1), TxEvent(SPI_WRITE), TxEvent(CNF3), TxEvent(Shl8(1, PHSEG21)) >>

\* The log without the release of a chip-select that was held when
\* initController was entered.
SinceFirstStatement(l) ==
    IF l # <<>> /\ l[1] = CsEvent(0) THEN SubSeq(l, 2, Len(l)) ELSE l

InInit == (Running /\ stack[1].fn = "initController") \/ Returned("initController")

\* C10: in initController, from its second statement on, chip-select is a
\* driven output, and it stays high until resetController drives it low; no
\* byte is handed to the SPI before it is enabled as master; the bus sees, in
\* this order, the whole RESET transaction, the delay, and only then
\* chip-select low followed by WRITE, CNF3 and the value.
C10_InitOrdering ==
    InInit =>
        /\ IsPrefix(SinceFirstStatement(log), InitLog)
        /\ (Running /\ Len(stack) = 1 /\ stack[1].pc \in 3..10)
              => (Bit(io["DDRB"], CHIP_SELECT) = 1 /\ Bit(io["PORTB"], CHIP_SELECT) = 1)
        /\ (Running /\ Top.fn = "sendData")
              => (SpiMaster(io) /\ Bit(io["DDRB"], CHIP_SELECT) = 1)
        /\ Returned("initController") => SinceFirstStatement(log) = InitLog

C10_Witness ==
    /\ Returned("initController")
    /\ log = <<CsEvent(0)>> \o InitLog

\* The bytes sent in a log, in order.
TxBytes(l) ==
    LET tx == SelectSeq(l, LAMBDA x : x.e = "tx")
    IN  [i \in 1..Len(tx) |-> tx[i].v]

\* C11: readRegister and readStatus return the byte that the SPI took in
\* during their last exchange, the one that sent FILLER: at the return SPDR
\* still holds that byte.  readStatus sends its argument and FILLER, so the
\* frames of the two status instructions differ in the first byte only.
C11_ReadsReturnFillerByte ==
    /\ Returned("readRegister") =>
          /\ TxBytes(log) = <<SPI_READ, Last.address, FILLER>>
          /\ Last.ret = io["SPDR"]
    /\ Returned("readStatus") =>
          /\ TxBytes(log) = <<Last.data, FILLER>>
          /\ Last.ret = io["SPDR"]
          /\ log[Len(log)] = CsEvent(0)
          /\ SelectSeq(log, LAMBDA x : x.e = "cs" /\ x.v = 0) = <<CsEvent(0)>>

C11_Witness ==
    /\ Returned("readStatus")
    /\ Last.data = SPI_RX_STATUS
    /\ Last.ret = 1
    /\ Len(hist) = 3
    /\ hist[2].fn = "readRegister"
    /\ hist[2].ret = 255

\* The program is in while (!(SPSR & (1<<SPIF))) {;} and the flag reads clear.
Waiting == At("wait") /\ And8(io[Cur.reg], Cur.val) = 0

\* It waits and no transfer is in flight that could set the flag.
Stalled == Waiting /\ ~spi.busy

\* C12: while sendData waits and SPIF reads clear, no step takes the program
\* out of the loop or hands control back to the caller; and once it waits
\* with no transfer in flight, it waits for ever.
C12_NoWayOutOfWait ==
    /\ [][Waiting => (stack' = stack /\ hist' = hist)]_vars
    /\ [][Stalled => Stalled']_vars

C12_Witness ==
    /\ Stalled
    /\ Len(stack) = 2
    /\ stack[1].fn = "readRegister"
    /\ Top.fn = "sendData"
    /\ hist # <<>>

\* Byte exchanges of each public function.
Exchanges(fn) ==
    CASE fn = "resetController" -> 1
      [] fn = "writeToRegister" -> 3
      [] fn = "readRegister"    -> 3
      [] fn = "bitModify"       -> 4
      [] fn = "readStatus"      -> 2
      [] fn = "initController"  -> 4
      [] fn = "messageReceived" -> 0

\* The SPI takes the bytes loaded into SPDR: it is enabled as master, or the
\* running call is the one that enables it (or one that uses no SPI).
BusResponds ==
    SpiMaster(io) \/ stack[1].fn \in {"initController", "messageReceived"}

\* C13: on a responsive bus every public call returns, and when it has
\* returned it has made exactly 1 (reset), 3 (write), 3 (read), 4
\* (bit-modify), 2 (read-status), 4 (init) byte exchanges.
C13_Termination ==
    /\ (Running /\ BusResponds) ~> ~Running
    /\ [](( ~Running /\ hist # <<>> ) => Len(TxBytes(log)) = Exchanges(Last.fn))

C13_Witness ==
    /\ Returned("bitModify")
    /\ Len(TxBytes(log)) = 4
    /\ Len(hist) = 3
    /\ hist[1].fn = "initController"
    /\ hist[2].fn = "readStatus"

InSendData(pc) == Running /\ Top.fn = "sendData" /\ Top.pc = pc

\* The last bus event is the transfer of the byte this sendData was given.
OwnTransferDone ==
    /\ ~spi.busy
    /\ log # <<>>
    /\ log[Len(log)] = TxEvent(Top.data)

\* C14: SPIF is clear and no transfer is in flight when sendData starts; when
\* sendData finds SPIF set, and when it is at its return, the transfer of its
\* own byte is the last thing that happened on the bus, so the SPDR it
\* returns is the byte that transfer shifted in.
C14_NoStaleFlag ==
    /\ InSendData(1) => (Bit(io["SPSR"], SPIF) = 0 /\ ~spi.busy /\ ~spi.armed)
    /\ (InSendData(2) /\ Bit(io["SPSR"], SPIF) = 1) => OwnTransferDone
    /\ InSendData(3) => OwnTransferDone
    /\ ~Running => (Bit(io["SPSR"], SPIF) = 0 /\ ~spi.busy)

C14_Witness ==
    /\ InSendData(1)
    /\ Len(log) >= 3
    /\ log[Len(log)].e = "tx"
    /\ Len(hist) >= 2

\* C15: the value initController returns is the value that its last call of
\* sendData returned to it, the byte that came in while the configuration
\* value went out, whatever that byte is.
C15_InitReturnsLastByte ==
    [][(Running /\ Len(stack) = 1 /\ Top.fn = "initController" /\ stack' = <<>>)
          => (hist'[Len(hist')].ret = Top.got /\ hist'[Len(hist')].ret = io["SPDR"])]_vars

C15_Witness ==
    /\ Returned("initController")
    /\ Last.ret = 255
    /\ TxBytes(log) = <<SPI_RESET, SPI_WRITE, CNF3, Shl8(1, PHSEG21)>>

\* C16: when writeToRegister(A, V) has returned, every chip register other
\* than A holds what it held when writeToRegister was called.
C16_WriteChangesOnlyAddressed ==
    Returned("writeToRegister") =>
        \A a \in 0..127 : a # Last.address => RegValue(regs, a) = RegValue(regs0, a)

\* The bits of x outside the bits of mask.
Outside(x, mask) == And8(x, Not8(mask))

CsBit == Shl8(1, CHIP_SELECT)
SpiPins == Or8(Or8(Or8(Shl8(1, CHIP_SELECT), Shl8(1, MISO)), Shl8(1, MOSI)), Shl8(1, SERIAL_CLK))
IntBit == Shl8(1, INTERRUPT_LOW)

\* C17: no step taken while resetController, writeToRegister, readRegister,
\* bitModify or readStatus runs changes a bit of PORTB other than bit 2 or
\* any bit of DDRB, DDRD, PORTD; no step taken while initController runs
\* changes a bit of PORTB or DDRB outside bits 2..5 or a bit of DDRD or PORTD
\* other than bit 2.
C17_PortFrame ==
    [][ /\ (Running /\ stack[1].fn \in (BusCalls \ {"initController"})) =>
              /\ Outside(io'["PORTB"], CsBit) = Outside(io["PORTB"], CsBit)
              /\ io'["DDRB"] = io["DDRB"]
              /\ io'["DDRD"] = io["DDRD"]
              /\ io'["PORTD"] = io["PORTD"]
        /\ (Running /\ stack[1].fn = "initController") =>
              /\ Outside(io'["PORTB"], SpiPins) = Outside(io["PORTB"], SpiPins)
              /\ Outside(io'["DDRB"], SpiPins) = Outside(io["DDRB"], SpiPins)
              /\ Outside(io'["DDRD"], IntBit) = Outside(io["DDRD"], IntBit)
              /\ Outside(io'["PORTD"], IntBit) = Outside(io["PORTD"], IntBit) ]_vars

\* initController and then a bus operation have run with every port pin
\* configured before: the pins the driver does not use are as they were.
C17_Witness ==
    /\ Returned("writeToRegister")
    /\ hist[1].fn = "initController"
    /\ io["PORTB"] = 199
    /\ io["DDRB"] = 247
    /\ io["DDRD"] = 251
    /\ io["PORTD"] = 255

====
